---- MODULE Spec2Model ----
(***************************************************************************)
(* Model of the job-listing ingestion pipeline of src/app.py: the trigger  *)
(* handler (trigger_scrape), the construction of JobScraper, the           *)
(* per-location loop of run_scrape, the fetch of one location, and the     *)
(* cleaning and batched upsert of insert_jobs_to_supabase.                 *)
(*                                                                         *)
(* Python values are records tagged by their type (field t).  Text is a    *)
(* tuple of one-character strings, so that str(), float(), int(), split()  *)
(* and strip() are computed and not assumed.                               *)
(***************************************************************************)
EXTENDS Integers, Sequences, FiniteSets, TLC

(***************************************************************************)
(* Python values                                                           *)
(***************************************************************************)
None == [t |-> "none"]
NaN == [t |-> "float", kind |-> "nan"]
Inf == [t |-> "float", kind |-> "inf", neg |-> FALSE]
PyIntV(n) == [t |-> "int", n |-> n]
PyFloatV(neg, ip, fr) == [t |-> "float", kind |-> "fin", neg |-> neg, ip |-> ip, fr |-> fr]
Str(chars) == [t |-> "str", s |-> chars]
List(items) == [t |-> "list", items |-> items]
EmptyDict == [t |-> "dict"]
Time(at) == [t |-> "time", at |-> at]

\* Outcome of evaluating a Python expression: a value, or a raised exception.
NoExc == "none"
Ok(v) == [exc |-> NoExc, v |-> v]
Raise(e) == [exc |-> e, v |-> None]

(***************************************************************************)
(* Text: characters, str(), float(), int(), strip(), split()               *)
(***************************************************************************)
DigitChars == <<"0", "1", "2", "3", "4", "5", "6", "7", "8", "9">>
IsDigit(c) == \E k \in 1..10 : DigitChars[k] = c
DigitVal(c) == (CHOOSE k \in 1..10 : DigitChars[k] = c) - 1

Lower(c) ==
  CASE c = "N" -> "n"
    [] c = "A" -> "a"
    [] c = "I" -> "i"
    [] c = "F" -> "f"
    [] OTHER -> c

RECURSIVE DecStr(_)
\* decimal digits of a natural number
DecStr(n) ==
  IF n < 10 THEN <<DigitChars[n + 1]>>
  ELSE DecStr(n \div 10) \o <<DigitChars[(n % 10) + 1]>>

RECURSIVE DecVal(_)
\* value of a non-empty tuple of digit characters
DecVal(ds) ==
  IF ds = <<>> THEN 0
  ELSE 10 * DecVal(SubSeq(ds, 1, Len(ds) - 1)) + DigitVal(ds[Len(ds)])

RECURSIVE LStrip(_)
LStrip(s) == IF s # <<>> /\ Head(s) = " " THEN LStrip(Tail(s)) ELSE s

RECURSIVE RStrip(_)
RStrip(s) ==
  IF s # <<>> /\ s[Len(s)] = " " THEN RStrip(SubSeq(s, 1, Len(s) - 1)) ELSE s

\* str.strip()
Strip(s) == RStrip(LStrip(s))

RECURSIVE SplitFrom(_, _, _)
\* str.split(sep): cur is the piece being read
SplitFrom(s, sep, cur) ==
  IF s = <<>> THEN <<cur>>
  ELSE IF Head(s) = sep THEN <<cur>> \o SplitFrom(Tail(s), sep, <<>>)
  ELSE SplitFrom(Tail(s), sep, Append(cur, Head(s)))

Split(s, sep) == SplitFrom(s, sep, <<>>)

RECURSIVE DropTrailingZeros(_)
\* the fraction digits a float prints: trailing zeros dropped, one digit kept
DropTrailingZeros(fr) ==
  IF Len(fr) > 1 /\ fr[Len(fr)] = "0"
  THEN DropTrailingZeros(SubSeq(fr, 1, Len(fr) - 1))
  ELSE fr

AllDigits(s) == \A k \in 1..Len(s) : IsDigit(s[k])

\* position of the first "." of s, or 0
DotAt(s) ==
  IF \E k \in 1..Len(s) : s[k] = "."
  THEN CHOOSE k \in 1..Len(s) : s[k] = "." /\ \A j \in 1..(k - 1) : s[j] # "."
  ELSE 0

\* float() of digits with an optional fraction
FloatOfDigits(neg, ipart, fpart) ==
  IF AllDigits(ipart) /\ AllDigits(fpart) /\ Len(ipart) + Len(fpart) > 0
  THEN Ok(PyFloatV(neg, DecVal(ipart),
                   DropTrailingZeros(IF fpart = <<>> THEN <<"0">> ELSE fpart)))
  ELSE Raise("ValueError")

\* the part of u before its first ".", and the part after it
IntPart(u, d) == IF d = 0 THEN u ELSE SubSeq(u, 1, d - 1)
FracPart(u, d) == IF d = 0 THEN <<>> ELSE SubSeq(u, d + 1, Len(u))

\* float() of text without sign
FloatOfUnsigned(neg, u) ==
  IF u \in {<<"i", "n", "f">>, <<"i", "n", "f", "i", "n", "i", "t", "y">>}
  THEN Ok([t |-> "float", kind |-> "inf", neg |-> neg])
  ELSE IF u = <<"n", "a", "n">> THEN Ok(NaN)
  ELSE FloatOfDigits(neg, IntPart(u, DotAt(u)), FracPart(u, DotAt(u)))

\* float() of text in lower case without blanks around
FloatOfStripped(b) ==
  IF b # <<>> /\ Head(b) \in {"-", "+"}
  THEN FloatOfUnsigned(Head(b) = "-", Tail(b))
  ELSE FloatOfUnsigned(FALSE, b)

LowerAll(s) == [k \in 1..Len(s) |-> Lower(s[k])]

\* float(s) for text s: optional blanks around, optional sign, then inf,
\* infinity, nan (any case) or digits with an optional fraction.
PyFloatOfText(s) == FloatOfStripped(LowerAll(Strip(s)))

RECURSIVE PyStr(_)
RECURSIVE JoinRepr(_)
\* the elements of a list as repr() prints them, separated by ", "
JoinRepr(items) ==
  IF items = <<>> THEN <<>>
  ELSE (IF Head(items).t = "str" THEN <<"'">> \o Head(items).s \o <<"'">>
        ELSE PyStr(Head(items)))
       \o (IF Len(items) > 1 THEN <<",", " ">> ELSE <<>>)
       \o JoinRepr(Tail(items))

\* str(value)
PyStr(v) ==
  CASE v.t = "none" -> <<"N", "o", "n", "e">>
    [] v.t = "int" -> (IF v.n < 0 THEN <<"-">> \o DecStr(-v.n) ELSE DecStr(v.n))
    [] v.t = "float" /\ v.kind = "nan" -> <<"n", "a", "n">>
    [] v.t = "float" /\ v.kind = "inf" ->
         (IF v.neg THEN <<"-">> ELSE <<>>) \o <<"i", "n", "f">>
    [] v.t = "float" /\ v.kind = "fin" ->
         (IF v.neg THEN <<"-">> ELSE <<>>) \o DecStr(v.ip) \o <<".">> \o v.fr
    [] v.t = "str" -> v.s
    [] v.t = "list" -> <<"[">> \o JoinRepr(v.items) \o <<"]">>
    [] v.t = "dict" -> <<"{", "}">>

\* float(str(value))
PyFloat(text) == PyFloatOfText(text)

\* int(f) for a float f: truncation toward zero; an infinity raises
\* OverflowError and a NaN raises ValueError.
PyInt(f) ==
  CASE f.kind = "inf" -> Raise("OverflowError")
    [] f.kind = "nan" -> Raise("ValueError")
    [] f.kind = "fin" -> Ok(PyIntV(IF f.neg THEN -f.ip ELSE f.ip))

(***************************************************************************)
(* Cleaning of one raw record (insert_jobs_to_supabase, lines 88-120)      *)
(***************************************************************************)
CountKeys == {"company_reviews_count", "vacancy_count", "min_amount", "max_amount"}
ListKeys == {"skills", "emails"}
RatingKey == "company_rating"

\* The columns of the provider's table, in column order.
Columns ==
  <<"id", "title", "company_reviews_count", "vacancy_count", "min_amount",
    "max_amount", "company_rating", "skills", "emails">>

\* pd.isna(value): a boolean for a scalar, an array of booleans for a list.
IsMissingScalar(v) == v = None \/ (v.t = "float" /\ v.kind = "nan")

PdIsna(v) ==
  IF v.t = "list"
  THEN [arr |-> TRUE, bs |-> [k \in 1..Len(v.items) |-> IsMissingScalar(v.items[k])]]
  ELSE [arr |-> FALSE, bs |-> <<IsMissingScalar(v)>>]

\* The truth value "if pd.isna(value):" takes.  An array of two or more
\* elements has no truth value (ValueError); an array of one element has its
\* element's; an empty array is False or raises, depending on the numpy
\* release installed (emptyRaises).
Truth(r, emptyRaises) ==
  IF ~r.arr THEN Ok(r.bs[1])
  ELSE IF Len(r.bs) = 0 THEN (IF emptyRaises THEN Raise("ValueError") ELSE Ok(FALSE))
  ELSE IF Len(r.bs) = 1 THEN Ok(r.bs[1])
  ELSE Raise("ValueError")

\* lines 96-99: int(float(str(value))) if str(value) != 'nan' else None,
\* with ValueError and TypeError giving None.
CleanCount(value) ==
  IF PyStr(value) = <<"n", "a", "n">> THEN Ok(None)
  ELSE LET f == PyFloat(PyStr(value)) IN
       IF f.exc \in {"ValueError", "TypeError"} THEN Ok(None)
       ELSE LET n == PyInt(f.v) IN
            IF n.exc \in {"ValueError", "TypeError"} THEN Ok(None) ELSE n

RECURSIVE StripNonEmpty(_)
StripNonEmpty(parts) ==
  IF parts = <<>> THEN <<>>
  ELSE (IF Strip(Head(parts)) # <<>> THEN <<Str(Strip(Head(parts)))>> ELSE <<>>)
       \o StripNonEmpty(Tail(parts))

\* lines 102-108
CleanList(value) ==
  IF value.t = "str" THEN Ok(List(StripNonEmpty(Split(value.s, ","))))
  ELSE IF value.t = "list" THEN Ok(value)
  ELSE Ok(None)

\* lines 111-114
CleanRating(value) ==
  IF PyStr(value) = <<"n", "a", "n">> THEN Ok(None)
  ELSE LET f == PyFloat(PyStr(value)) IN
       IF f.exc \in {"ValueError", "TypeError"} THEN Ok(None) ELSE f

\* lines 92-116: the value stored under key, or the exception raised
CleanValue(key, value, emptyRaises) ==
  LET na == Truth(PdIsna(value), emptyRaises) IN
  IF na.exc # NoExc THEN Raise(na.exc)
  ELSE IF na.v THEN Ok(None)
  ELSE IF key \in CountKeys /\ value # None THEN CleanCount(value)
  ELSE IF key \in ListKeys /\ value # None THEN CleanList(value)
  ELSE IF key = RatingKey /\ value # None THEN CleanRating(value)
  ELSE Ok(IF value # None THEN Str(PyStr(value)) ELSE None)

CleanedKeys == {Columns[k] : k \in 1..Len(Columns)} \cup {"scraped_at"}

\* lines 89-119: the cleaned record of one raw record, stamped with the
\* current time, or the first exception a field raises
CleanJob(job, clock, emptyRaises) ==
  LET res == [key \in DOMAIN job |-> CleanValue(key, job[key], emptyRaises)]
      bad == {k \in 1..Len(Columns) : res[Columns[k]].exc # NoExc}
  IN  IF bad # {}
      THEN Raise(res[Columns[CHOOSE k \in bad : \A j \in bad : k <= j]].exc)
      ELSE Ok([key \in CleanedKeys |->
                 IF key = "scraped_at" THEN Time(clock) ELSE res[key].v])

RECURSIVE CleanJobs(_, _, _)
\* lines 87-120: the cleaned records of a table, or the first exception
CleanJobs(jobs, clock, emptyRaises) ==
  IF jobs = <<>> THEN Ok(<<>>)
  ELSE LET first == CleanJob(Head(jobs), clock, emptyRaises) IN
       IF first.exc # NoExc THEN Raise(first.exc)
       ELSE LET rest == CleanJobs(Tail(jobs), clock, emptyRaises) IN
            IF rest.exc # NoExc THEN Raise(rest.exc)
            ELSE Ok(<<first.v>> \o rest.v)

(***************************************************************************)
(* Program constants and the bounds of the model                           *)
(***************************************************************************)
NumLocations == 7
BatchSize == 10
BatchPause == 2
LocationPause == 10

\* Bounds: the number of locations of one run the provider returns records
\* for, the largest table handed to one write, and the number of write calls
\* on it.
MaxTables == 2
MaxRecords == 23
MaxWrites == 2

Handlers == {1, 2}

(***************************************************************************)
(* What the provider can return                                            *)
(***************************************************************************)
Text(k) ==
  CASE k = "pm" -> <<"p", "m">>
    [] k = "42.0" -> <<"4", "2", ".", "0">>
    [] k = "-7.9" -> <<"-", "7", ".", "9">>
    [] k = "junk" -> <<"n", "o", "t", "-", "a", "-", "n", "u", "m", "b", "e", "r">>
    [] k = "inf" -> <<"i", "n", "f">>
    [] k = "nan" -> <<"n", "a", "n">>
    [] k = "NaN" -> <<"N", "a", "N">>
    [] k = "skills" -> <<"p", "y", ",", " ", "s", "q", "l", " ", ",", " ", " ", "m", "l">>
    [] k = "py" -> <<"p", "y">>
    [] k = "ml" -> <<"m", "l">>

\* A well-formed listing with identity j.
GoodJob(j) ==
  [key \in {Columns[k] : k \in 1..Len(Columns)} |->
     CASE key = "id" -> Str(DecStr(j))
       [] key = "title" -> Str(Text("pm"))
       [] key = "company_reviews_count" -> PyFloatV(FALSE, 42, <<"0">>)
       [] key = "vacancy_count" -> NaN
       [] key = "min_amount" -> PyIntV(5)
       [] key = "max_amount" -> Str(Text("42.0"))
       [] key = "company_rating" -> PyFloatV(FALSE, 4, <<"5">>)
       [] key = "skills" -> Str(Text("skills"))
       [] key = "emails" -> None]

\* The raw values a field is tried with: the missing sentinel, None, numbers,
\* numeric and non-numeric text, text denoting an infinity or a NaN, lists of
\* length 0, 1 and 2, and a value of another type.
RawValues ==
  {NaN, None, PyIntV(5), PyFloatV(TRUE, 7, <<"9">>), Inf,
   Str(Text("42.0")), Str(Text("-7.9")), Str(Text("junk")), Str(Text("inf")),
   Str(Text("nan")), Str(Text("NaN")), Str(Text("skills")),
   List(<<>>), List(<<Str(Text("py"))>>), List(<<None>>),
   List(<<Str(Text("py")), Str(Text("ml"))>>), EmptyDict}

\* A table of n listings with identities 1..n; the listing at position p has
\* the value of column key replaced (p = 0: no listing is changed).
Frame(n, p, key, value) ==
  [j \in 1..n |-> IF j = p THEN [GoodJob(j) EXCEPT ![key] = value] ELSE GoodJob(j)]

\* What scrape_jobs hands back for one location in a run: a table of one
\* listing, a table of one listing more than a batch, and such a table with
\* the id of its first listing missing or the skills of its last a list.
RunFrames ==
  {Frame(1, 0, "id", None),
   Frame(BatchSize + 1, 0, "id", None),
   Frame(BatchSize + 1, 1, "id", NaN),
   Frame(BatchSize + 1, BatchSize + 1, "skills", List(<<Str(Text("py")), Str(Text("ml"))>>))}

\* The tables a single write call is tried with: every size up to
\* MaxRecords well-formed, and the sizes around a batch boundary with one
\* field of one listing replaced by each raw value.
WriteFrames ==
  {Frame(n, 0, "id", None) : n \in 1..MaxRecords}
  \cup {Frame(n, n, key, value) :
          n \in {1, BatchSize + 1},
          key \in {"id", "title", "min_amount", "company_rating", "skills"},
          value \in RawValues}

(***************************************************************************)
(* The store: the rows of table job_listings                               *)
(***************************************************************************)
\* Mutant of UpsertRow: a plain insert, which keeps the rows that carry the id.
InsertRow(rows, rec) == rows \cup {rec}

\* upsert of one row with on_conflict='id': the row replaces the rows that
\* carry its id
UpsertRow(rows, rec) == {r \in rows : r["id"] # rec["id"]} \cup {rec}

RECURSIVE Upsert(_, _)
\* lines 129-132: upsert(batch, on_conflict='id')
Upsert(rows, batch) ==
  IF batch = <<>> THEN rows
  ELSE Upsert(UpsertRow(rows, Head(batch)), Tail(batch))

\* id is the key of the table: the store refuses a batch holding a row
\* without id, or two rows with one id.
StoreAccepts(batch) ==
  /\ \A k \in 1..Len(batch) : batch[k]["id"] # None
  /\ \A j, k \in 1..Len(batch) : batch[j]["id"] = batch[k]["id"] => j = k

(***************************************************************************)
(* State                                                                   *)
(***************************************************************************)
VARIABLES
  pc,            \* per handler: where trigger_scrape stands
  loc,           \* per handler: index of the location of the for loop (line 150)
  total_jobs,    \* per handler: run_scrape's total_jobs
  jobs_df,       \* per handler: the table of the current location
  cleaned_jobs,  \* per handler: insert_jobs_to_supabase's cleaned_jobs
  batch_at,      \* per handler: the offset i of the batch loop (line 124)
  response,      \* per handler: the response trigger_scrape returned
  store,         \* the rows of job_listings
  now,           \* the clock datetime.now() reads
  writes,        \* per handler: write calls made on the current table
  fetchLog,      \* history, per run: the locations scrape_jobs was called for
  threw,         \* history, per run: number of scrape_jobs calls that raised
  tables,        \* history, per run: number of scrape_jobs calls that returned records
  returned,      \* history, per run: number of records scrape_jobs returned
  stored,        \* history, per run: number of records in batches the store took
  failed,        \* history, per run: number of records in batches whose upsert raised
  abandoned,     \* history, per run: number of records of tables whose cleaning raised
  setupFailure,  \* history, per run: why construction failed ("none": it did not)
  calls,         \* history, per location: the upsert calls and their outcome
  prepExc,       \* history, per location: the exception line 140 caught
  ops            \* history, per location: what the handler did since it asked the provider

\* the state of the program, and what is recorded of a run
progVars == <<pc, loc, total_jobs, jobs_df, cleaned_jobs, batch_at, response, store, now, writes>>
runHist == <<fetchLog, threw, tables, returned, setupFailure>>
writeHist == <<stored, failed, abandoned, calls, prepExc, ops>>
vars == <<progVars, runHist, writeHist>>

\* What a handler does for a location: the provider call, the cleaning of
\* the table, an upsert call that returned or raised, and a pause of secs.
Fetched == [op |-> "fetch", secs |-> 0]
Cleaned == [op |-> "clean", secs |-> 0]
Upserted(ok) == [op |-> IF ok THEN "upsert_ok" ELSE "upsert_failed", secs |-> 0]
Slept(secs) == [op |-> "sleep", secs |-> secs]

NoResponse == [status |-> "none", code |-> 0]
Success == [status |-> "success", code |-> 200]
Error == [status |-> "error", code |-> 500]

Min(a, b) == IF a < b THEN a ELSE b

\* line 125: cleaned_jobs[i:i + batch_size]
Batch(jobs, i) == SubSeq(jobs, i + 1, Min(i + BatchSize, Len(jobs)))

Init ==
  /\ pc = [h \in Handlers |-> "idle"]
  /\ loc = [h \in Handlers |-> 0]
  /\ total_jobs = [h \in Handlers |-> 0]
  /\ jobs_df = [h \in Handlers |-> <<>>]
  /\ cleaned_jobs = [h \in Handlers |-> <<>>]
  /\ batch_at = [h \in Handlers |-> 0]
  /\ response = [h \in Handlers |-> NoResponse]
  /\ store = {}
  /\ now = 0
  /\ writes = [h \in Handlers |-> 0]
  /\ fetchLog = [h \in Handlers |-> <<>>]
  /\ threw = [h \in Handlers |-> 0]
  /\ tables = [h \in Handlers |-> 0]
  /\ returned = [h \in Handlers |-> 0]
  /\ stored = [h \in Handlers |-> 0]
  /\ failed = [h \in Handlers |-> 0]
  /\ abandoned = [h \in Handlers |-> 0]
  /\ setupFailure = [h \in Handlers |-> "none"]
  /\ calls = [h \in Handlers |-> <<>>]
  /\ prepExc = [h \in Handlers |-> NoExc]
  /\ ops = [h \in Handlers |-> <<>>]

(***************************************************************************)
(* Steps of the code that the actions share                                *)
(***************************************************************************)
\* Mutant of SetupOk: the exception of the connectivity probe is swallowed.
SetupOkNoProbe(envSet, probeOk) == envSet

\* lines 24-34: construction succeeds when both credentials are set and the
\* connectivity probe does not raise
SetupOk(envSet, probeOk) == envSet /\ probeOk

\* What a call of scrape_jobs does: it raises, returns None, or returns a table.
ProviderOutcomes ==
  {[kind |-> "raise", jobs |-> <<>>], [kind |-> "none", jobs |-> <<>>],
   [kind |-> "table", jobs |-> <<>>]}
  \cup {[kind |-> "table", jobs |-> f] : f \in RunFrames}

\* Mutant of ScrapeResult: the except branch hands back a table of one
\* listing instead of an empty one.
ScrapeResultOnRaiseNotEmpty(outcome) ==
  IF outcome.kind = "raise" THEN Frame(1, 0, "id", None) ELSE outcome.jobs

\* lines 65-74: the table scrape_jobs_for_location returns
ScrapeResult(outcome) == IF outcome.kind = "table" THEN outcome.jobs ELSE <<>>

\* Mutants of CountJobs: the total is assigned instead of added to; the
\* total counts tables instead of records.
CountJobsAssign(total, jobs) == Len(jobs)
CountJobsPerTable(total, jobs) == total + 1

\* line 155: total_jobs += len(jobs_df)
CountJobs(total, jobs) == total + Len(jobs)

\* Mutant of NextOffset: the step of the batch loop is one more than the
\* batch size.
NextOffsetSkip(i) == i + BatchSize + 1

\* line 124: the offset of the batch after the one at i
NextOffset(i) == i + BatchSize

\* Mutant of OffsetAfterFailure: the batch whose upsert raised is sent again.
OffsetAfterFailureRetry(i, n) == i

\* Mutant of OffsetAfterFailure: break instead of continue.
OffsetAfterFailureBreak(i, n) == n

\* lines 136-138: after a failed batch at offset i of n records the loop
\* continues with the next batch
OffsetAfterFailure(i, n) == NextOffset(i)

\* Mutant of RunScrapeResult: run_scrape falls off its end and returns None.
RunScrapeReturnsNone == FALSE

\* line 165 and lines 180-191: run_scrape returns True, and trigger_scrape
\* answers by what it returned
RunScrapeResult == TRUE
ResponseOf(success) == IF success THEN Success ELSE Error

\* Mutant of MoreLocations: the loop is left after its first pass.
MoreLocationsNever(k) == FALSE

\* line 150: the for loop goes on while the list has a location after the
\* k-th
MoreLocations(k) == k < NumLocations

\* Mutant of NextLocation: the loop steps over the location after the
\* current one.
NextLocationSkip(k) == k + 2

\* line 150: the for loop takes the locations in list order, each once
NextLocation(k) == k + 1

\* Mutant of PausesAfterUpsert: the batch loop has no pause.
PausesAfterUpsertNever(ok) == FALSE

\* Mutant of PausesAfterUpsert: the pause is in a finally clause, and is made
\* whether the upsert returned or raised.
PausesAfterUpsertAlways(ok) == TRUE

\* lines 127-138: time.sleep(2) of line 134 follows execute() inside the try,
\* so it is reached when the upsert returned and skipped when it raised
PausesAfterUpsert(ok) == ok

\* Mutant of PauseAfterLocation: the pause is taken under the test of line
\* 153, for the locations that returned records.
PauseAfterRecordsOnly(jobs) == IF jobs = <<>> THEN 0 ELSE LocationPause

\* line 158: time.sleep(10) follows the if of line 153, whatever table the
\* location returned
PauseAfterLocation(jobs) == LocationPause

Set(f, h, v) == [f EXCEPT ![h] = v]

\* The batch loop, at offset i, has another batch, or the write returns to
\* run_scrape, which counts the table (line 155) and goes on to its pause
\* (line 158).
AfterBatch(h, i) ==
  /\ batch_at' = Set(batch_at, h, i)
  /\ IF i < Len(cleaned_jobs[h])
     THEN /\ pc' = Set(pc, h, "upsert")
          /\ UNCHANGED total_jobs
     ELSE /\ pc' = Set(pc, h, "sleep_location")
          /\ total_jobs' = Set(total_jobs, h, CountJobs(total_jobs[h], jobs_df[h]))

(***************************************************************************)
(* Actions                                                                 *)
(***************************************************************************)
\* trigger_scrape, lines 176-177 and 193-199, with JobScraper.__init__: a
\* request arrives and the scraper is constructed; a failed construction is
\* answered with an error, a successful one enters run_scrape (lines 145-147).
TriggerScrape(h) ==
  /\ pc[h] = "idle"
  /\ \E envSet \in BOOLEAN, probeOk \in BOOLEAN :
       /\ IF SetupOk(envSet, probeOk)
          THEN /\ pc' = Set(pc, h, "scrape")
               /\ response' = Set(response, h, NoResponse)
          ELSE /\ pc' = Set(pc, h, "done")
               /\ response' = Set(response, h, Error)
       /\ setupFailure' = Set(setupFailure, h,
                              IF ~envSet THEN "credentials"
                              ELSE IF ~probeOk THEN "probe" ELSE "none")
  /\ loc' = Set(loc, h, 1)
  /\ total_jobs' = Set(total_jobs, h, 0)
  /\ UNCHANGED <<jobs_df, cleaned_jobs, batch_at, store, now, writes>>
  /\ UNCHANGED <<fetchLog, threw, tables, returned>>
  /\ UNCHANGED writeHist

\* scrape_jobs_for_location (lines 51-74) and the test of line 153: the
\* provider raises, finds nothing, or returns a table.
ScrapeJobsForLocation(h) ==
  /\ pc[h] = "scrape"
  /\ \E outcome \in ProviderOutcomes :
       /\ outcome.jobs # <<>> => tables[h] < MaxTables
       /\ jobs_df' = Set(jobs_df, h, ScrapeResult(outcome))
       /\ threw' = Set(threw, h, threw[h] + (IF outcome.kind = "raise" THEN 1 ELSE 0))
       /\ tables' = Set(tables, h, tables[h] + (IF outcome.jobs # <<>> THEN 1 ELSE 0))
       /\ returned' = Set(returned, h, returned[h] + Len(outcome.jobs))
       /\ pc' = Set(pc, h, IF ScrapeResult(outcome) = <<>> THEN "sleep_location"
                           ELSE "prepare")
  /\ fetchLog' = Set(fetchLog, h, Append(fetchLog[h], loc[h]))
  /\ cleaned_jobs' = Set(cleaned_jobs, h, <<>>)
  /\ batch_at' = Set(batch_at, h, 0)
  /\ writes' = Set(writes, h, 0)
  /\ calls' = Set(calls, h, <<>>)
  /\ prepExc' = Set(prepExc, h, NoExc)
  /\ ops' = Set(ops, h, <<Fetched>>)
  /\ UNCHANGED <<loc, total_jobs, response, store, now>>
  /\ UNCHANGED <<setupFailure, stored, failed, abandoned>>

\* insert_jobs_to_supabase, lines 82-120 and 140-141: every record is cleaned
\* and stamped; an exception ends the write with nothing upserted.
PrepareJobs(h) ==
  /\ pc[h] = "prepare"
  /\ \E emptyRaises \in BOOLEAN :
       LET r == CleanJobs(jobs_df[h], now, emptyRaises) IN
       IF r.exc # NoExc
       THEN /\ prepExc' = Set(prepExc, h, r.exc)
            /\ abandoned' = Set(abandoned, h, abandoned[h] + Len(jobs_df[h]))
            /\ cleaned_jobs' = Set(cleaned_jobs, h, <<>>)
            /\ pc' = Set(pc, h, "sleep_location")
            /\ total_jobs' = Set(total_jobs, h, CountJobs(total_jobs[h], jobs_df[h]))
       ELSE /\ prepExc' = Set(prepExc, h, NoExc)
            /\ cleaned_jobs' = Set(cleaned_jobs, h, r.v)
            /\ pc' = Set(pc, h, "upsert")
            /\ UNCHANGED <<total_jobs, abandoned>>
  /\ batch_at' = Set(batch_at, h, 0)
  /\ writes' = Set(writes, h, writes[h] + 1)
  /\ now' = now + 1
  /\ ops' = Set(ops, h, Append(ops[h], Cleaned))
  /\ UNCHANGED <<loc, jobs_df, response, store>>
  /\ UNCHANGED <<runHist, stored, failed, calls>>

\* lines 124-138: one batch is upserted; the store takes it, or the call
\* raises and the loop continues.
UpsertBatch(h) ==
  /\ pc[h] = "upsert"
  /\ LET batch == Batch(cleaned_jobs[h], batch_at[h]) IN
     \E ok \in {b \in BOOLEAN : b => StoreAccepts(batch)} :
       /\ calls' = Set(calls, h, Append(calls[h],
                                       [batch |-> batch, ok |-> ok, write |-> writes[h],
                                        offset |-> batch_at[h]]))
       /\ ops' = Set(ops, h, Append(ops[h], Upserted(ok)))
       /\ IF ok
          THEN /\ store' = Upsert(store, batch)
               /\ stored' = Set(stored, h, stored[h] + Len(batch))
               /\ UNCHANGED failed
          ELSE /\ failed' = Set(failed, h, failed[h] + Len(batch))
               /\ UNCHANGED <<store, stored>>
       /\ IF PausesAfterUpsert(ok)
          THEN /\ pc' = Set(pc, h, "sleep_batch")
               /\ UNCHANGED <<batch_at, total_jobs>>
          ELSE AfterBatch(h, IF ok THEN NextOffset(batch_at[h])
                             ELSE OffsetAfterFailure(batch_at[h], Len(cleaned_jobs[h])))
  /\ UNCHANGED <<loc, jobs_df, cleaned_jobs, response, now, writes>>
  /\ UNCHANGED <<runHist, abandoned, prepExc>>

\* line 134: the pause after a batch the store took
SleepBatch(h) ==
  /\ pc[h] = "sleep_batch"
  /\ now' = now + BatchPause
  /\ ops' = Set(ops, h, Append(ops[h], Slept(BatchPause)))
  /\ AfterBatch(h, NextOffset(batch_at[h]))
  /\ UNCHANGED <<loc, jobs_df, cleaned_jobs, response, store, writes>>
  /\ UNCHANGED <<runHist, stored, failed, abandoned, calls, prepExc>>

\* line 158 and the for of line 150: the pause after a location, then the
\* next location or the end of the loop
SleepLocation(h) ==
  /\ pc[h] = "sleep_location"
  /\ now' = now + PauseAfterLocation(jobs_df[h])
  /\ ops' = Set(ops, h, Append(ops[h], Slept(PauseAfterLocation(jobs_df[h]))))
  /\ IF MoreLocations(loc[h])
     THEN /\ loc' = Set(loc, h, NextLocation(loc[h]))
          /\ pc' = Set(pc, h, "scrape")
     ELSE /\ pc' = Set(pc, h, "return")
          /\ UNCHANGED loc
  /\ UNCHANGED <<total_jobs, jobs_df, cleaned_jobs, batch_at, response, store, writes>>
  /\ UNCHANGED <<runHist, stored, failed, abandoned, calls, prepExc>>

\* lines 164-165 and 178-191: run_scrape returns and trigger_scrape answers
Respond(h) ==
  /\ pc[h] = "return"
  /\ response' = Set(response, h, ResponseOf(RunScrapeResult))
  /\ pc' = Set(pc, h, "done")
  /\ UNCHANGED <<loc, total_jobs, jobs_df, cleaned_jobs, batch_at, store, now, writes>>
  /\ UNCHANGED <<runHist, writeHist>>

\* One request is served at a time.
Next ==
  \E h \in {1} :
    \/ TriggerScrape(h)
    \/ ScrapeJobsForLocation(h)
    \/ PrepareJobs(h)
    \/ UpsertBatch(h)
    \/ SleepBatch(h)
    \/ SleepLocation(h)
    \/ Respond(h)

Spec == Init /\ [][Next]_vars

\* The positions of a handler at which it is inside a call or a pause.
Positions == {"idle", "scrape", "prepare", "upsert", "sleep_batch", "sleep_location", "return"}

\* Handler h leaves the position at: the call or pause it is in returns.
Leaves(h, at) ==
  /\ pc[h] = at
  /\ pc' \in {Set(pc, h, to) : to \in (Positions \cup {"done"}) \ {at}}

\* The run of a request under the assumption that every call it makes
\* (construction, provider, cleaning, store, sleep) returns: the handler
\* does not stay at one position forever.
SpecFair == Spec /\ \A at \in Positions : WF_pc(Leaves(1, at))

(***************************************************************************)
(* The write alone: insert_jobs_to_supabase called on a table, and called  *)
(* again on the same table                                                 *)
(***************************************************************************)
InitWrite ==
  /\ \E f \in WriteFrames :
       /\ jobs_df = [h \in Handlers |-> IF h = 1 THEN f ELSE <<>>]
       /\ returned = [h \in Handlers |-> IF h = 1 THEN Len(f) ELSE 0]
  /\ pc = [h \in Handlers |-> IF h = 1 THEN "prepare" ELSE "idle"]
  /\ loc = [h \in Handlers |-> IF h = 1 THEN 1 ELSE 0]
  /\ total_jobs = [h \in Handlers |-> 0]
  /\ cleaned_jobs = [h \in Handlers |-> <<>>]
  /\ batch_at = [h \in Handlers |-> 0]
  /\ response = [h \in Handlers |-> NoResponse]
  /\ store = {}
  /\ now = 0
  /\ writes = [h \in Handlers |-> 0]
  /\ fetchLog = [h \in Handlers |-> IF h = 1 THEN <<1>> ELSE <<>>]
  /\ threw = [h \in Handlers |-> 0]
  /\ tables = [h \in Handlers |-> IF h = 1 THEN 1 ELSE 0]
  /\ stored = [h \in Handlers |-> 0]
  /\ failed = [h \in Handlers |-> 0]
  /\ abandoned = [h \in Handlers |-> 0]
  /\ setupFailure = [h \in Handlers |-> "none"]
  /\ calls = [h \in Handlers |-> <<>>]
  /\ prepExc = [h \in Handlers |-> NoExc]
  /\ ops = [h \in Handlers |-> IF h = 1 THEN <<Fetched>> ELSE <<>>]

\* The caller hands the table it holds to insert_jobs_to_supabase again.
InsertAgain(h) ==
  /\ pc[h] = "sleep_location"
  /\ writes[h] < MaxWrites
  /\ pc' = Set(pc, h, "prepare")
  /\ UNCHANGED <<loc, total_jobs, jobs_df, cleaned_jobs, batch_at, response, store, now,
                 writes>>
  /\ UNCHANGED <<runHist, writeHist>>

NextWrite ==
  \E h \in {1} :
    \/ PrepareJobs(h)
    \/ UpsertBatch(h)
    \/ SleepBatch(h)
    \/ InsertAgain(h)

SpecWrite == InitWrite /\ [][NextWrite]_vars

(***************************************************************************)
(* Two overlapping requests: the development server answers each request   *)
(* in a thread of its own (line 201), and nothing keeps a second           *)
(* trigger_scrape from running while the first is in run_scrape.  The two  *)
(* runs are taken up where both are about to fetch their last location,    *)
(* the earlier locations having returned no records.                       *)
(***************************************************************************)
InitOverlap ==
  /\ pc = [h \in Handlers |-> "scrape"]
  /\ loc = [h \in Handlers |-> NumLocations]
  /\ total_jobs = [h \in Handlers |-> 0]
  /\ jobs_df = [h \in Handlers |-> <<>>]
  /\ cleaned_jobs = [h \in Handlers |-> <<>>]
  /\ batch_at = [h \in Handlers |-> 0]
  /\ response = [h \in Handlers |-> NoResponse]
  /\ store = {}
  /\ now = 0
  /\ writes = [h \in Handlers |-> 0]
  /\ fetchLog = [h \in Handlers |-> [k \in 1..(NumLocations - 1) |-> k]]
  /\ threw = [h \in Handlers |-> 0]
  /\ tables = [h \in Handlers |-> 0]
  /\ returned = [h \in Handlers |-> 0]
  /\ stored = [h \in Handlers |-> 0]
  /\ failed = [h \in Handlers |-> 0]
  /\ abandoned = [h \in Handlers |-> 0]
  /\ setupFailure = [h \in Handlers |-> "none"]
  /\ calls = [h \in Handlers |-> <<>>]
  /\ prepExc = [h \in Handlers |-> NoExc]
  /\ ops = [h \in Handlers |-> <<Fetched, Slept(LocationPause)>>]

\* The steps of the two handlers interleave in any order.
NextOverlap ==
  \E h \in Handlers :
    \/ ScrapeJobsForLocation(h)
    \/ PrepareJobs(h)
    \/ UpsertBatch(h)
    \/ SleepBatch(h)
    \/ SleepLocation(h)
    \/ Respond(h)

SpecOverlap == InitOverlap /\ [][NextOverlap]_vars

(***************************************************************************)
(* Properties                                                              *)
(***************************************************************************)
\* number of upsert calls a table of n records needs
ChunksNeeded(n) == (n + BatchSize - 1) \div BatchSize

\* the upsert calls handler h made in its write call number w
CallsOf(h, w) == SelectSeq(calls[h], LAMBDA c : c.write = w)

RECURSIVE Concat(_)
\* the concatenation of a sequence of sequences
Concat(ss) == IF ss = <<>> THEN <<>> ELSE Head(ss) \o Concat(Tail(ss))

BatchesOf(cs) == [k \in 1..Len(cs) |-> cs[k].batch]
SizesOf(cs) == [k \in 1..Len(cs) |-> Len(cs[k].batch)]
AllOk(cs) == \A k \in 1..Len(cs) : cs[k].ok

\* C1: in a run where the provider call raised for some location, every
\* location was still fetched, in order, and every record the provider
\* returned for the other locations was passed to the store in an upsert call.
C1_FetchFailureIsolated ==
  \A h \in Handlers :
    (pc[h] \in {"return", "done"} /\ threw[h] > 0) =>
      /\ fetchLog[h] = [k \in 1..NumLocations |-> k]
      /\ stored[h] + failed[h] = returned[h]

\* C2: when a write of N cleaned records has returned, it has issued exactly
\* ceil(N / 10) upsert calls, every one of 10 records except the last, which
\* holds the remainder, and the batches in call order concatenate to the
\* cleaned records.
C2_BatchesPartitionTheInput ==
  \A h \in Handlers :
    (pc[h] = "sleep_location" /\ cleaned_jobs[h] # <<>>) =>
      LET cs == CallsOf(h, writes[h])
          n == Len(cleaned_jobs[h])
      IN  /\ Len(cs) = ChunksNeeded(n)
          /\ \A k \in 1..Len(cs) :
               Len(cs[k].batch) = IF k < Len(cs) THEN BatchSize
                                  ELSE n - BatchSize * (k - 1)
          /\ n % BatchSize # 0 => Len(cs[Len(cs)].batch) = n % BatchSize
          /\ Concat(BatchesOf(cs)) = cleaned_jobs[h]

\* C2 witness: a write of 23 records has returned after calls of 10, 10 and 3.
C2_Witness ==
  /\ pc[1] = "sleep_location"
  /\ Len(cleaned_jobs[1]) = 2 * BatchSize + 3
  /\ SizesOf(CallsOf(1, 1)) = <<BatchSize, BatchSize, 3>>

\* C3: a batch whose upsert raised is followed by the attempt of every later
\* batch of the write, the write returns only after all its batches were
\* attempted, and a run in which a batch failed still fetches every location
\* and is not answered with an error.
C3_BatchFailureContained ==
  \A h \in Handlers :
    /\ pc[h] \in {"upsert", "sleep_batch", "sleep_location"} =>
         \A k \in 1..Len(calls[h]) :
           (~calls[h][k].ok /\ k * BatchSize < Len(cleaned_jobs[h])) =>
             \/ Len(calls[h]) > k
             \/ pc[h] = "upsert" /\ batch_at[h] = k * BatchSize
    /\ (pc[h] = "sleep_location" /\ cleaned_jobs[h] # <<>>) =>
         Len(calls[h]) = ChunksNeeded(Len(cleaned_jobs[h]))
    /\ (pc[h] \in {"return", "done"} /\ failed[h] > 0) =>
         /\ fetchLog[h] = [k \in 1..NumLocations |-> k]
         /\ response[h] # Error

\* C3 witness: the first of two batches failed, the second was upserted, and
\* the run is about to fetch the next location.
C3_Witness ==
  /\ pc[1] = "scrape"
  /\ loc[1] > 1
  /\ Len(calls[1]) = 2
  /\ ~calls[1][1].ok
  /\ calls[1][2].ok

\* C4: the store never holds two rows with one id, and when a table has been
\* written a second time, every record of a batch the store took in the
\* second write is the row stored under its id.
C4_UpsertIdempotent ==
  /\ \A r1, r2 \in store : r1["id"] = r2["id"] => r1 = r2
  /\ \A h \in Handlers :
       (pc[h] = "sleep_location" /\ writes[h] >= 2) =>
         LET cs == CallsOf(h, writes[h]) IN
         \A k \in 1..Len(cs) :
           cs[k].ok => \A j \in 1..Len(cs[k].batch) : cs[k].batch[j] \in store

\* C4 witness: a table of 11 records was written twice, every batch taken,
\* and the store holds its 11 rows.
C4_Witness ==
  /\ pc[1] = "sleep_location"
  /\ writes[1] = 2
  /\ Len(calls[1]) = 4
  /\ AllOk(calls[1])
  /\ Cardinality(store) = BatchSize + 1

\* C5: a request whose construction succeeded is answered with success, and
\* only after every location was fetched, whatever fetches and upserts failed.
C5_SuccessAfterLoop ==
  \A h \in Handlers :
    /\ (pc[h] = "done" /\ setupFailure[h] = "none") => response[h] = Success
    /\ response[h] = Success =>
         /\ pc[h] = "done"
         /\ fetchLog[h] = [k \in 1..NumLocations |-> k]

\* C5 witness: a run answered with success in which every fetch either raised
\* or returned a table none of whose batches the store took.
C5_Witness ==
  /\ pc[1] = "done"
  /\ response[1] = Success
  /\ tables[1] = MaxTables
  /\ threw[1] + tables[1] = NumLocations
  /\ stored[1] = 0
  /\ failed[1] = returned[1]

\* C6: a request whose construction failed is answered with an error without
\* any fetch or upsert, and no other request is answered with an error.
C6_SetupFailureOnlyError ==
  \A h \in Handlers :
    /\ setupFailure[h] # "none" =>
         /\ pc[h] = "done"
         /\ response[h] = Error
         /\ fetchLog[h] = <<>>
         /\ calls[h] = <<>>
         /\ stored[h] + failed[h] = 0
    /\ response[h] = Error => setupFailure[h] # "none"

\* C6 witness: the connectivity probe raised and the request was answered
\* with an error.
C6_Witness ==
  /\ setupFailure[1] = "probe"
  /\ response[1] = Error

\* C7: the running total is the number of records the provider has returned
\* for the locations counted so far (during the write of a table its records
\* are not counted yet), so that at the end of the run it is the sum over all
\* locations; a location without records leaves the total as it is and causes
\* no upsert call.
C7_TotalIsSumOfFetched ==
  \A h \in Handlers :
    /\ pc[h] \in {"prepare", "upsert", "sleep_batch"} =>
         total_jobs[h] + Len(jobs_df[h]) = returned[h]
    /\ pc[h] \in {"scrape", "sleep_location", "return", "done"} =>
         total_jobs[h] = returned[h]
    /\ jobs_df[h] = <<>> => calls[h] = <<>>

\* C7 witness: a run ends with a total of 12, two locations having returned
\* 1 and 11 records and the others none, without any fetch raising.
C7_Witness ==
  /\ pc[1] = "return"
  /\ threw[1] = 0
  /\ tables[1] = 2
  /\ total_jobs[1] = BatchSize + 2

\* C8, as stated, for the runs in which no cleaning raised: at the end of a
\* run the total counts only the records of batches the store took, and none
\* of a batch whose upsert raised.
C8_TotalCountsOnlyStored ==
  \A h \in Handlers :
    (pc[h] \in {"return", "done"} /\ abandoned[h] = 0) => total_jobs[h] = stored[h]

\* C8, amended: at the end of a run the total counts every record of every
\* table the provider returned: the records of batches the store took, those
\* of batches whose upsert raised, and those of tables whose cleaning raised.
C8_TotalCountsFailedWrites ==
  \A h \in Handlers :
    pc[h] \in {"return", "done"} =>
      total_jobs[h] = stored[h] + failed[h] + abandoned[h]

\* C8 witness: a run ends having had a batch taken, a batch refused and a
\* table abandoned.
C8_Witness ==
  /\ pc[1] = "return"
  /\ stored[1] > 0
  /\ failed[1] > 0
  /\ abandoned[1] > 0

\* C9: every record passed to an upsert call has an id and a scraped_at that
\* are not null.
C9_UpsertedRecordsHaveId ==
  \A h \in Handlers :
    \A k \in 1..Len(calls[h]) :
      \A j \in 1..Len(calls[h][k].batch) :
        /\ calls[h][k].batch[j]["id"] # None
        /\ calls[h][k].batch[j]["scraped_at"] # None

\* C10: cleaning a table raises nothing, so that no table is dropped before
\* its batches are upserted.
C10_CleaningNeverRaises ==
  \A h \in Handlers : prepExc[h] = NoExc /\ abandoned[h] = 0

\* C11: a written table whose only irregular field is a scalar min_amount
\* (a count-like field) is cleaned without an exception, and the cleaned
\* field is null or an integer: 42 for the text 42.0, the value truncated
\* toward zero for -7.9, null for text that is no number.
C11_CountFieldNullOrInteger ==
  \A h \in Handlers :
    \A n \in {1, BatchSize + 1} :
      \A value \in {v \in RawValues : v.t # "list"} :
        (writes[h] >= 1 /\ jobs_df[h] = Frame(n, n, "min_amount", value)) =>
          /\ prepExc[h] = NoExc
          /\ Len(cleaned_jobs[h]) = n
          /\ LET c == cleaned_jobs[h][n]["min_amount"] IN
             /\ c = None \/ c.t = "int"
             /\ value = Str(Text("42.0")) => c = PyIntV(42)
             /\ value = Str(Text("-7.9")) => c = PyIntV(-7)
             /\ value = Str(Text("junk")) => c = None

\* the records with identity id in the batches the store took from handler h
SubmittedBy(h, id) ==
  UNION {{calls[h][k].batch[j] :
            j \in {i \in 1..Len(calls[h][k].batch) : calls[h][k].batch[i]["id"] = id}} :
         k \in {m \in 1..Len(calls[h]) : calls[h][m].ok}}

\* the records with identity id in the batches the store took from either run
SubmittedFor(id) == UNION {SubmittedBy(h, id) : h \in Handlers}

\* C12: while two runs overlap the store never holds two rows with one id,
\* and when both runs have been answered, every id of a batch the store took
\* from either run has exactly one row, which is, field for field, one of the
\* records the two runs submitted under that id.
C12_OverlapKeepsOneRowPerId ==
  /\ \A r1, r2 \in store : r1["id"] = r2["id"] => r1 = r2
  /\ (\A h \in Handlers : pc[h] = "done") =>
       \A h \in Handlers :
         \A k \in 1..Len(calls[h]) :
           calls[h][k].ok =>
             \A j \in 1..Len(calls[h][k].batch) :
               LET id == calls[h][k].batch[j]["id"] IN
               /\ Cardinality({r \in store : r["id"] = id}) = 1
               /\ \A r \in store : r["id"] = id => r \in SubmittedFor(id)

\* C12 witness: both runs wrote the same 11 identities with different stamps,
\* every batch was taken, and the store ends with rows of the first run for
\* the first batch and the row of the second run for the second batch.
C12_Witness ==
  /\ \A h \in Handlers : pc[h] = "done" /\ Len(calls[h]) = 2 /\ AllOk(calls[h])
  /\ calls[1][1].batch[1]["scraped_at"] # calls[2][1].batch[1]["scraped_at"]
  /\ calls[1][1].batch[1] \in store
  /\ calls[2][2].batch[1] \in store
  /\ Cardinality(store) = BatchSize + 1

\* C13: the locations a run has fetched are 1, 2, ..., k in this order, each
\* once, k being the location the loop stands at (the one before it while
\* that location's fetch is still to be made), whatever fetches, cleanings
\* and upserts failed; a run that has left the loop has fetched all of them.
C13_LocationsInOrderOnce ==
  \A h \in Handlers :
    setupFailure[h] = "none" /\ pc[h] # "idle" =>
      /\ loc[h] \in 1..NumLocations
      /\ fetchLog[h] = [k \in 1..(IF pc[h] = "scrape" THEN loc[h] - 1 ELSE loc[h]) |-> k]
      /\ pc[h] \in {"return", "done"} => loc[h] = NumLocations

\* C13 witness: a run has left the loop after a fetch raised, a table was
\* abandoned in cleaning and a batch was refused by the store.
C13_Witness ==
  /\ pc[1] = "return"
  /\ threw[1] > 0
  /\ abandoned[1] > 0
  /\ failed[1] > 0
  /\ Len(fetchLog[1]) = NumLocations

\* C14: when every call returns, a run that has entered its loop is
\* eventually answered, with success, after all locations were fetched: it
\* neither stops before the last location nor stays in the loop forever.
C14_StartedRunCompletes ==
  \A h \in Handlers :
    (pc[h] = "scrape") ~>
      (pc[h] = "done" /\ response[h] = Success /\ Len(fetchLog[h]) = NumLocations)

\* C14 witness: a run is answered after two locations returned 1 and 11
\* records, all of which the store took.
C14_Witness ==
  /\ pc[1] = "done"
  /\ Len(fetchLog[1]) = NumLocations
  /\ returned[1] = BatchSize + 2
  /\ stored[1] = returned[1]

\* C15: whenever a step replaces the row stored under an id, the scraped_at
\* of the row stored after the step is not earlier than the scraped_at of the
\* row stored before it.
C15_ReplacedRowIsNotNewer ==
  [][\A old \in store :
       \A new \in store' :
         old["id"] = new["id"] => new["scraped_at"].at >= old["scraped_at"].at]_vars

IsUpsert(o) == o.op \in {"upsert_ok", "upsert_failed"}

\* the positions of the pauses of secs in a sequence of operations
PausesOf(os, secs) == {k \in 1..Len(os) : os[k] = Slept(secs)}

\* C16: every upsert call of a write that is followed by another upsert call,
\* whether it returned or raised, is followed at once by one pause of
\* BatchPause.
C16_PauseAfterEveryAttempt ==
  \A h \in Handlers :
    \A k \in 1..Len(ops[h]) :
      (IsUpsert(ops[h][k]) /\ \E j \in (k + 1)..Len(ops[h]) : IsUpsert(ops[h][j])) =>
        ops[h][k + 1] = Slept(BatchPause)

\* C16, amended: the pause of BatchPause depends on the outcome of the upsert
\* call: every such pause comes right after an upsert call that returned, and
\* an upsert call that raised is followed by no such pause: the handler goes
\* on to the next upsert call, or the write returns.
C16_PauseOnlyAfterSuccess ==
  \A h \in Handlers :
    /\ \A k \in PausesOf(ops[h], BatchPause) : ops[h][k - 1] = Upserted(TRUE)
    /\ \A k \in 1..Len(ops[h]) :
         ops[h][k] = Upserted(FALSE) =>
           /\ k = Len(ops[h]) => pc[h] # "sleep_batch"
           /\ k < Len(ops[h]) => ops[h][k + 1] # Slept(BatchPause)

\* C16 witness: the first batch of a table was refused and the second was
\* sent without a pause in between.
C16_Witness ==
  /\ pc[1] = "sleep_batch"
  /\ ops[1] = <<Fetched, Cleaned, Upserted(FALSE), Upserted(TRUE)>>

\* C17: an upsert call that returned is followed by one pause of BatchPause
\* and by no second one: the handler is at that pause, or the pause is the
\* next thing it did and what it did after the pause is no pause of that
\* length; no upsert call is issued right after an upsert call that returned.
C17_OnePauseAfterSuccess ==
  \A h \in Handlers :
    /\ \A k \in 1..Len(ops[h]) :
         ops[h][k] = Upserted(TRUE) =>
           /\ k = Len(ops[h]) => pc[h] = "sleep_batch"
           /\ k < Len(ops[h]) => ops[h][k + 1] = Slept(BatchPause)
           /\ k + 1 < Len(ops[h]) => ops[h][k + 2] # Slept(BatchPause)
    /\ pc[h] = "upsert" => ops[h][Len(ops[h])] # Upserted(TRUE)
    /\ pc[h] = "sleep_batch" => ops[h][Len(ops[h])] = Upserted(TRUE)

\* C17 witness: the first batch of a table was taken, the pause was made and
\* the second batch is about to be sent.
C17_Witness ==
  /\ pc[1] = "upsert"
  /\ ops[1] = <<Fetched, Cleaned, Upserted(TRUE), Slept(BatchPause)>>

\* C18: when the provider is about to be called for a location after the
\* first, what the handler did since the previous provider call ends with a
\* pause of LocationPause, the only pause of that length in it, whatever
\* the previous location returned and whatever became of its write; and no
\* pause of that length is made anywhere else.
C18_OnePauseBetweenFetches ==
  \A h \in Handlers :
    /\ (pc[h] = "scrape" /\ fetchLog[h] # <<>>) =>
         /\ ops[h][1] = Fetched
         /\ PausesOf(ops[h], LocationPause) = {Len(ops[h])}
         /\ \A k \in 2..Len(ops[h]) : ops[h][k] # Fetched
    /\ pc[h] \in {"prepare", "upsert", "sleep_batch", "sleep_location"} =>
         PausesOf(ops[h], LocationPause) = {}

\* C18 witness: the provider is about to be called after a location whose
\* first batch was refused and whose second was taken.
C18_Witness ==
  /\ pc[1] = "scrape"
  /\ ops[1] = <<Fetched, Cleaned, Upserted(FALSE), Upserted(TRUE), Slept(BatchPause),
                Slept(LocationPause)>>

\* C19: a step that issues an upsert call issues it for a slice of the table
\* that lies after every slice already sent in this write, the table of a
\* location is written once, and a call that raised leaves every row of the
\* store as it was.
C19_NoRetryOfAChunk ==
  [][\A h \in Handlers :
       Len(calls'[h]) = Len(calls[h]) + 1 =>
         LET c == calls'[h][Len(calls'[h])] IN
         /\ c.write = 1
         /\ \A k \in 1..Len(calls[h]) : calls[h][k].offset < c.offset
         /\ ~c.ok => store' = store]_vars

\* C19 witness: the first batch of the first table was refused and never
\* sent again; the store holds the one row of the second batch.
C19_Witness ==
  /\ pc[1] = "sleep_location"
  /\ Len(calls[1]) = 2
  /\ ~calls[1][1].ok
  /\ calls[1][2].ok
  /\ store = {calls[1][2].batch[1]}

\* the program state handler h is in after a fetch that handed back no
\* records
AfterEmptyFetch(h) ==
  <<Set(pc, h, "sleep_location"), loc, total_jobs, Set(jobs_df, h, <<>>),
    Set(cleaned_jobs, h, <<>>), Set(batch_at, h, 0), response, store, now,
    Set(writes, h, 0)>>

\* C20: a provider call that raised hands the run an empty table, and a fetch
\* that handed back an empty table, whether the provider raised or found
\* nothing, leaves the program in one and the same state (no upsert call made,
\* the location's pause next, the total, the store and the response as they
\* were); what follows depends on that state only, so the two runs go on
\* alike.
C20_FailedFetchLikeEmptyFetch ==
  [][\A h \in Handlers :
       (pc[h] = "scrape" /\ pc'[h] # "scrape") =>
         /\ threw'[h] # threw[h] => jobs_df'[h] = <<>>
         /\ jobs_df'[h] = <<>> =>
              /\ progVars' = AfterEmptyFetch(h)
              /\ calls'[h] = <<>>
              /\ ops'[h] = <<Fetched>>
              /\ returned'[h] = returned[h]]_vars

\* C20 witness: the provider raised for the second location, after a first
\* location whose records were stored, and the run stands at the pause of
\* the second location with its total and the store as they were.
C20_Witness ==
  /\ pc[1] = "sleep_location"
  /\ loc[1] = 2
  /\ threw[1] = 1
  /\ jobs_df[1] = <<>>
  /\ total_jobs[1] = 1
  /\ Cardinality(store) = 1

====
